---- MODULE Spec2Model ----
(***************************************************************************)
(* A model of pinax.api.resource: Resource.populate with its deferred      *)
(* save_relationships closure, Resource.save, Resource.get_self_link,      *)
(* Resource.serializable and resolve_include.                              *)
(*                                                                         *)
(* Python values are modelled with their types: a str is a sequence of     *)
(* one-character strings, an int is a number, and a value carries a tag so *)
(* that "1" and 1 are different values, as they are to Python's == and to  *)
(* set.difference.                                                         *)
(***************************************************************************)
EXTENDS Integers, Sequences, FiniteSets, TLC

VARIABLES
    \* ---- populate world -------------------------------------------------
    pkKind,        \* python type of the related models' primary keys: "int" | "str"
    store,         \* primary keys (as row numbers) that exist in the related tables
    pc,            \* position of the populate call and of its caller
    obj,           \* the owning domain object (fields, pk, save_relationships)
    coll,          \* the owning object's collection accessors: accessor -> rows
    frame,         \* populate's local cells accessor_name and qs (closure cells)
    attrsIn,       \* data["attributes"] as iterated: sequence of <<key, value>>
    log,           \* the relationship items iterated so far, in iteration order
    exc,           \* the exception that left populate / the deferred write
    \* ---- document world (serializable, resolve_include) -----------------
    rel1,          \* to-one fields of the document objects: obj -> name -> obj | NoObj
    relN,          \* collection accessors of the document objects: obj -> name -> Seq(obj)
    included,      \* the Included accumulator
    incCall,       \* the last resolve_include call: resource, path, outcome
    fragment,      \* the last result of serializable
    \* ---- link world (get_self_link) -------------------------------------
    chain,         \* bound viewset chain of the resource class, root first
    ref,           \* getattr(obj, lookup field) of the link objects
    linkCall       \* the last get_self_link call: object, outcome, kwargs, url

popVars == <<pkKind, store, pc, obj, coll, frame, attrsIn, log, exc>>
docVars == <<rel1, relN, included, incCall, fragment>>
linkVars == <<chain, ref, linkCall>>
vars == <<popVars, docVars, linkVars>>

----------------------------------------------------------------------------
(* Bounds                                                                  *)

NumPks == 3        \* how many primary keys of PkTable the related tables may hold
MaxRels == 2       \* most relationship items in one payload
MaxAttrs == 2      \* most attribute items in one payload
MaxMembers == 2    \* most members of a collection of a document object
MaxPathLen == 2    \* most segments of an include path
MaxDepth == 3      \* deepest chain of nested viewset bindings

----------------------------------------------------------------------------
(* Python str, int and the operations the code applies to them             *)

DigitChars == <<"0", "1", "2", "3", "4", "5", "6", "7", "8", "9">>

\* code point order of the characters used ("," and " " sort before digits)
Ord(c) ==
    IF c = " " THEN 0
    ELSE IF c = "," THEN 1
    ELSE 1 + CHOOSE i \in 1..10 : DigitChars[i] = c

\* str(n) for a non-negative int
RECURSIVE Str(_)
Str(n) ==
    IF n < 10 THEN <<DigitChars[n + 1]>>
    ELSE Append(Str(n \div 10), DigitChars[(n % 10) + 1])

\* int(s) for a str of digits
RECURSIVE ParseInt(_)
ParseInt(s) ==
    IF Len(s) = 0 THEN 0
    ELSE 10 * ParseInt(SubSeq(s, 1, Len(s) - 1)) + (Ord(s[Len(s)]) - 2)

\* s < t for two str, as Python compares them (lexicographic by code point)
RECURSIVE StrLess(_, _)
StrLess(s, t) ==
    IF Len(t) = 0 THEN FALSE
    ELSE IF Len(s) = 0 THEN TRUE
    ELSE IF Ord(s[1]) < Ord(t[1]) THEN TRUE
    ELSE IF Ord(s[1]) > Ord(t[1]) THEN FALSE
    ELSE StrLess(Tail(s), Tail(t))

\* sorted(S) for a set of str
RECURSIVE Sorted(_)
Sorted(S) ==
    IF S = {} THEN <<>>
    ELSE LET m == CHOOSE x \in S : \A y \in S \ {x} : StrLess(x, y)
         IN <<m>> \o Sorted(S \ {m})

\* sep.join(seq) for a sequence of str
RECURSIVE Join(_, _)
Join(sep, seq) ==
    IF Len(seq) = 0 THEN <<>>
    ELSE IF Len(seq) = 1 THEN seq[1]
    ELSE seq[1] \o sep \o Join(sep, Tail(seq))

CommaSpace == <<",", " ">>

\* a Python value with its type
StrVal(s) == [t |-> "str", s |-> s, n |-> 0]
IntVal(n) == [t |-> "int", s |-> <<>>, n |-> n]

----------------------------------------------------------------------------
(* The populate world: one resource class, its model and the related tables *)

PkTable == <<1, 3, 9, 10, 2>>
Pks == {PkTable[i] : i \in 1..NumPks}

\* the ids a payload can name, as the JSON strings they are on the wire
PayloadIds == {StrVal(Str(n)) : n \in Pks}

\* cls.relationships: name -> descriptor (collection, attr)
RelNames == {"author", "tags", "comments"}
Relationships ==
    [k \in RelNames |->
        IF k = "author" THEN [collection |-> FALSE, attr |-> "None"]
        ELSE IF k = "tags" THEN [collection |-> TRUE, attr |-> "None"]
        ELSE [collection |-> TRUE, attr |-> "comment"]]

\* keys a payload's "relationships" may hold ("ghost" is not declared)
PayloadRelKeys == RelNames \cup {"ghost"}

\* cls.model._meta.get_field for the names the class uses
FieldNames == {"name", "title", "author", "tags", "comment"}
GetField ==
    [f \in FieldNames |->
        IF f = "author" THEN
            [attname |-> "author_id", name |-> "author", reverse |-> FALSE,
             related |-> "person", accessor |-> "None"]
        ELSE IF f = "tags" THEN
            [attname |-> "tags", name |-> "tags", reverse |-> FALSE,
             related |-> "tag", accessor |-> "None"]
        ELSE IF f = "comment" THEN
            [attname |-> "comment", name |-> "comment", reverse |-> TRUE,
             related |-> "comment", accessor |-> "comment_set"]
        ELSE
            [attname |-> f, name |-> f, reverse |-> FALSE,
             related |-> "None", accessor |-> "None"]]

\* keys a payload's "attributes" may hold ("bogus" is no field of the model)
PayloadAttrKeys == {"name", "title", "bogus"}
AttrValues == {"Ada"}
Accessors == {"tags", "comment_set"}

\* a row of a related table as the object the manager returns
Target(model, row) == [model |-> model, row |-> row]
NoTarget == [model |-> "None", row |-> 0]

\* obj.id of a related row, in the python type of the primary key
NativeId(row) == IF pkKind = "int" THEN IntVal(row) ELSE StrVal(Str(row))

\* the lookup pk=<v> / pk__in=<vs>: the value is converted to the key's type
PkMatches(row, v) ==
    IF pkKind = "int"
    THEN row = (IF v.t = "int" THEN v.n ELSE ParseInt(v.s))
    ELSE Str(row) = (IF v.t = "str" THEN v.s ELSE Str(v.n))

\* related._default_manager.filter(pk__in=given), evaluated
FilterPkIn(given) == {row \in store : \E v \in given : PkMatches(row, v)}

NoExc == [type |-> "None", key |-> "None", text |-> <<>>]
NoFrame == [accessor_name |-> "unbound", qs |-> {}]

\* populate's obj argument when it is None
NoneObj ==
    [pk |-> "NoneObj", name |-> "None", title |-> "None",
     author_id |-> NoTarget, save_relationships |-> FALSE]
\* cls.model(): a fresh, unsaved instance
ModelNew ==
    [pk |-> "None", name |-> "unset", title |-> "unset",
     author_id |-> NoTarget, save_relationships |-> FALSE]
\* an instance loaded from the database
OldAuthor == [model |-> "person", row |-> 0]
ModelExisting ==
    [pk |-> "set", name |-> "old", title |-> "old",
     author_id |-> OldAuthor, save_relationships |-> FALSE]

\* sequences of at most n elements of S
SeqUpTo(S, n) == UNION {[1..m -> S] : m \in 0..n}
Range(seq) == {seq[i] : i \in 1..Len(seq)}
Distinct(seq) == \A i, j \in 1..Len(seq) : i # j => seq[i] # seq[j]

\* the "data" lists of a to-many payload: resource linkage without repeats
DataLists == {d \in SeqUpTo(PayloadIds, NumPks) : Distinct(d)}

InitPopulate ==
    /\ pkKind \in {"int", "str"}
    /\ store \in SUBSET Pks
    /\ pc = "call"
    /\ obj \in {NoneObj, ModelExisting}
    /\ coll = [a \in Accessors |-> {}]
    /\ frame = NoFrame
    /\ attrsIn = <<>>
    /\ log = <<>>
    /\ exc = NoExc

\* setattr(obj, f.attname, v) for the plain fields
SetAttr(o, attname, v) ==
    IF attname = "name" THEN [o EXCEPT !.name = v]
    ELSE IF attname = "title" THEN [o EXCEPT !.title = v]
    ELSE o

\* lines 39-41 over a whole attributes dict; stops at the first unknown key
RECURSIVE ApplyAttrs(_, _)
ApplyAttrs(o, items) ==
    IF Len(items) = 0 THEN [obj |-> o, ok |-> TRUE]
    ELSE IF items[1][1] \notin FieldNames THEN [obj |-> o, ok |-> FALSE]
    ELSE ApplyAttrs(SetAttr(o, GetField[items[1][1]].attname, items[1][2]), Tail(items))

\* populate, lines 37-42: the object and the attribute loop
PopulateAttrs ==
    /\ pc = "call"
    /\ \E keys \in SeqUpTo(PayloadAttrKeys, MaxAttrs), val \in AttrValues :
          /\ Distinct(keys)
          /\ LET items == [i \in 1..Len(keys) |-> <<keys[i], val>>]
                 o == IF obj = NoneObj THEN ModelNew ELSE obj
                 r == ApplyAttrs(o, items)
             IN /\ attrsIn' = items
                /\ obj' = r.obj
                /\ pc' = IF r.ok THEN "rels" ELSE "raised"
                /\ exc' = IF r.ok THEN NoExc
                          ELSE [type |-> "FieldDoesNotExist", key |-> "None", text |-> <<>>]
    /\ UNCHANGED <<pkKind, store, coll, frame, log>>
    /\ UNCHANGED <<docVars, linkVars>>

LogKeys == {log[i].k : i \in 1..Len(log)}

Entry(k, collection, id, given, targets, accessor) ==
    [k |-> k, collection |-> collection, id |-> id, given |-> given,
     targets |-> targets, accessor |-> accessor]

\* populate, line 44 when the payload names an undeclared relationship
PopulateRelUnknown ==
    /\ pc = "rels" /\ Len(log) < MaxRels
    /\ \E k \in PayloadRelKeys \ LogKeys :
          /\ k \notin DOMAIN Relationships
          /\ log' = Append(log, Entry(k, FALSE, <<>>, {}, {}, "None"))
          /\ pc' = "raised"
          /\ exc' = [type |-> "KeyError", key |-> k, text |-> <<>>]
    /\ UNCHANGED <<pkKind, store, obj, coll, frame, attrsIn>>
    /\ UNCHANGED <<docVars, linkVars>>

\* PopulateRelOne with the lookup replaced by one that yields None for a
\* missing row instead of raising
PopulateRelOne_NoRaise ==
    /\ pc = "rels" /\ Len(log) < MaxRels
    /\ \E k \in (PayloadRelKeys \cap RelNames) \ LogKeys, id \in PayloadIds :
          LET rel == Relationships[k]
              attr == IF rel.attr # "None" THEN rel.attr ELSE k
              f == GetField[attr]
              rows == {row \in store : PkMatches(row, id)}
          IN /\ ~rel.collection
             /\ log' = Append(log, Entry(k, FALSE, id.s, {id}, rows, f.attname))
             /\ pc' = "rels"
             /\ exc' = exc
             /\ obj' = [obj EXCEPT !.author_id =
                           IF rows = {} THEN NoTarget
                           ELSE Target(f.related, CHOOSE row \in rows : TRUE)]
    /\ UNCHANGED <<pkKind, store, coll, frame, attrsIn>>
    /\ UNCHANGED <<docVars, linkVars>>

\* populate, lines 44-56: a to-one relationship item
PopulateRelOne ==
    /\ pc = "rels" /\ Len(log) < MaxRels
    /\ \E k \in (PayloadRelKeys \cap RelNames) \ LogKeys, id \in PayloadIds :
          LET rel == Relationships[k]
              attr == IF rel.attr # "None" THEN rel.attr ELSE k
              f == GetField[attr]
              rows == {row \in store : PkMatches(row, id)}
          IN /\ ~rel.collection
             /\ log' = Append(log, Entry(k, FALSE, id.s, {id}, rows, f.attname))
             /\ IF rows = {}
                THEN /\ pc' = "raised"
                     /\ exc' = [type |-> "ValidationError", key |-> k, text |-> id.s]
                     /\ obj' = obj
                ELSE /\ pc' = "rels"
                     /\ exc' = exc
                     /\ obj' = [obj EXCEPT !.author_id =
                                   Target(f.related, CHOOSE row \in rows : TRUE)]
    /\ UNCHANGED <<pkKind, store, coll, frame, attrsIn>>
    /\ UNCHANGED <<docVars, linkVars>>

\* PopulateRelMany with the object put back as it was at the call when
\* ids are missing
PopulateRelMany_Rollback ==
    /\ pc = "rels" /\ Len(log) < MaxRels
    /\ \E k \in (PayloadRelKeys \cap RelNames) \ LogKeys,
          data \in DataLists :
          LET rel == Relationships[k]
              attr == IF rel.attr # "None" THEN rel.attr ELSE k
              given == Range(data)
              f == GetField[attr]
              related == f.related
              accessor_name == IF f.reverse THEN f.accessor ELSE f.name
              qs == FilterPkIn(given)
              found == {NativeId(row) : row \in qs}
              missing == given \ found
          IN /\ rel.collection
             /\ log' = Append(log, Entry(k, TRUE, <<>>, given,
                                         {Target(related, row) : row \in qs},
                                         accessor_name))
             /\ frame' = [accessor_name |-> accessor_name,
                          qs |-> {Target(related, row) : row \in qs}]
             /\ IF missing # {}
                THEN /\ pc' = "raised"
                     /\ exc' = [type |-> "ValidationError", key |-> k,
                                text |-> Join(CommaSpace,
                                              Sorted({m.s : m \in missing}))]
                     /\ obj' = IF obj.pk = "None" THEN ModelNew ELSE ModelExisting
                ELSE /\ pc' = "rels"
                     /\ exc' = exc
                     /\ obj' = [obj EXCEPT !.save_relationships = TRUE]
    /\ UNCHANGED <<pkKind, store, coll, attrsIn>>
    /\ UNCHANGED <<docVars, linkVars>>

\* populate, lines 57-84: a to-many relationship item
PopulateRelMany ==
    /\ pc = "rels" /\ Len(log) < MaxRels
    /\ \E k \in (PayloadRelKeys \cap RelNames) \ LogKeys,
          data \in DataLists :
          LET rel == Relationships[k]
              attr == IF rel.attr # "None" THEN rel.attr ELSE k
              given == Range(data)
              f == GetField[attr]
              related == f.related
              accessor_name == IF f.reverse THEN f.accessor ELSE f.name
              qs == FilterPkIn(given)
              found == {NativeId(row) : row \in qs}
              missing == given \ found
          IN /\ rel.collection
             /\ log' = Append(log, Entry(k, TRUE, <<>>, given,
                                         {Target(related, row) : row \in qs},
                                         accessor_name))
             /\ frame' = [accessor_name |-> accessor_name,
                          qs |-> {Target(related, row) : row \in qs}]
             /\ IF missing # {}
                THEN /\ pc' = "raised"
                     /\ exc' = [type |-> "ValidationError", key |-> k,
                                text |-> Join(CommaSpace,
                                              Sorted({m.s : m \in missing}))]
                     /\ obj' = obj
                ELSE /\ pc' = "rels"
                     /\ exc' = exc
                     /\ obj' = [obj EXCEPT !.save_relationships = TRUE]
    /\ UNCHANGED <<pkKind, store, coll, attrsIn>>
    /\ UNCHANGED <<docVars, linkVars>>

\* populate, line 85: the loop is over, the Resource is returned
PopulateReturn ==
    /\ pc = "rels"
    /\ pc' = "returned"
    /\ UNCHANGED <<pkKind, store, obj, coll, frame, attrsIn, log, exc>>
    /\ UNCHANGED <<docVars, linkVars>>

\* Resource.save when obj.pk is None: create()
SaveCreate ==
    /\ pc = "returned" /\ obj.pk = "None"
    /\ \E clean \in BOOLEAN :
          IF clean
          THEN /\ obj' = [obj EXCEPT !.pk = "set"]
               /\ pc' = "saved"
               /\ exc' = exc
          ELSE /\ obj' = obj
               /\ pc' = "save_raised"
               /\ exc' = [type |-> "ValidationError", key |-> "full_clean", text |-> <<>>]
    /\ UNCHANGED <<pkKind, store, coll, frame, attrsIn, log>>
    /\ UNCHANGED <<docVars, linkVars>>

\* Resource.save when obj.pk is set: update()
SaveUpdate ==
    /\ pc = "returned" /\ obj.pk # "None"
    /\ \E clean \in BOOLEAN :
          IF clean
          THEN /\ pc' = "saved"
               /\ exc' = exc
          ELSE /\ pc' = "save_raised"
               /\ exc' = [type |-> "ValidationError", key |-> "full_clean", text |-> <<>>]
    /\ UNCHANGED <<pkKind, store, obj, coll, frame, attrsIn, log>>
    /\ UNCHANGED <<docVars, linkVars>>

\* the caller invokes obj.save_relationships(..., parent): lines 80-83.
\* parent defaults to obj; the manager of an unsaved parent refuses the write.
InvokeSaveRelationships ==
    /\ pc \in {"returned", "saved"}
    /\ obj.save_relationships
    /\ \E parent \in {"None", "obj"} :
          IF obj.pk = "None"
          THEN /\ pc' = "write_raised"
               /\ exc' = [type |-> "ValueError", key |-> frame.accessor_name, text |-> <<>>]
               /\ coll' = coll
          ELSE /\ pc' = IF pc = "saved" THEN "written" ELSE "written_unsaved"
               /\ exc' = exc
               /\ coll' = [coll EXCEPT ![frame.accessor_name] = @ \cup frame.qs]
    /\ UNCHANGED <<pkKind, store, obj, frame, attrsIn, log>>
    /\ UNCHANGED <<docVars, linkVars>>

----------------------------------------------------------------------------
(* get_self_link: the walk over the bound viewset chain                    *)

\* a chain is a sequence of levels, root first, leaf (the resource's own
\* class) last; level i+1's viewset has level i's class as its parent.
\* A level is [bound, field, base_name]: bound_viewset is not None,
\* url.lookup["field"], url.base_name.
LevelFields == <<"account", "project", "ticket", "note">>
LevelNames == <<"accounts", "projects", "tickets", "notes">>
Level(i, bound) == [bound |-> bound, field |-> LevelFields[i], base_name |-> LevelNames[i]]

NoObj == [type |-> "None", id |-> 0]

\* kwargs[key] = value on a dict kept as a sequence of <<key, value>>
DictSet(d, key, value) ==
    IF \E i \in 1..Len(d) : d[i][1] = key
    THEN [i \in 1..Len(d) |-> IF d[i][1] = key THEN <<key, value>> ELSE d[i]]
    ELSE Append(d, <<key, value>>)

\* resolve(), the descent: lines 122-128 for levels n, n-1, ..., 1.
\* True when some level on the way up to the root has no bound viewset.
Unbound(ch) == \E i \in 1..Len(ch) : ~ch[i].bound

\* resolve(), the unwinding: lines 129-133 for levels i..Len(ch), root first.
\* cur is the nonlocal obj (NoObj while it is still None).
\* attrs[o][f] is getattr(o, f), NoObj when it is None or missing.
RECURSIVE Unwind(_, _, _, _, _, _)
Unwind(ch, i, selfObj, cur, kwargs, attrs) ==
    IF i > Len(ch) THEN [status |-> "ok", kwargs |-> kwargs]
    ELSE LET o == IF cur = NoObj THEN selfObj ELSE attrs[cur][ch[i].field]
         IN IF o = NoObj
            THEN [status |-> "AttributeError", kwargs |-> kwargs]
            ELSE Unwind(ch, i + 1, selfObj, o,
                        DictSet(kwargs, ch[i].field, Str(o.id)), attrs)

\* get_self_link, lines 116-141
SelfLink(ch, selfObj, absolute, attrs) ==
    IF Len(ch) = 0 \/ Unbound(ch)
    THEN [status |-> "RuntimeError", kwargs |-> <<>>, name |-> "None", absolute |-> FALSE]
    ELSE LET r == Unwind(ch, 1, selfObj, NoObj, <<>>, attrs)
         IN IF r.status # "ok"
            THEN [status |-> r.status, kwargs |-> r.kwargs, name |-> "None", absolute |-> FALSE]
            ELSE [status |-> "ok", kwargs |-> r.kwargs,
                  name |-> ch[Len(ch)].base_name, absolute |-> absolute]

----------------------------------------------------------------------------
(* The link world: a resource class under a chain of nested viewsets       *)

LinkIds == {7, 12}
LinkObjs == {[type |-> "row", id |-> n] : n \in LinkIds}
\* the lookup fields that get_self_link may read off an object
DerefFields == {LevelFields[i] : i \in 2..MaxDepth}

Chains ==
    UNION {{[i \in 1..k |-> Level(i, b[i])] : b \in [1..k -> BOOLEAN]} : k \in 1..MaxDepth}

InitLink ==
    /\ chain \in Chains
    /\ ref \in [LinkObjs -> [DerefFields -> LinkObjs \cup {NoObj}]]
    /\ linkCall = <<>>

\* Resource(obj).get_self_link(request)
GetSelfLink ==
    /\ linkCall = <<>>
    /\ \E o \in LinkObjs, absolute \in BOOLEAN :
          linkCall' = <<[obj |-> o, result |-> SelfLink(chain, o, absolute, ref)]>>
    /\ UNCHANGED <<chain, ref>>
    /\ UNCHANGED <<popVars, docVars>>

----------------------------------------------------------------------------
(* The document world: resource classes, their objects, serializable and   *)
(* resolve_include                                                         *)

\* cls.relationships of each resource class, in declared order
Declared(type) ==
    IF type = "post" THEN <<"author", "comments", "tags">>
    ELSE IF type = "comment" THEN <<"author", "likes">>
    ELSE <<>>

\* the descriptor of a declared relationship: collection, resource_class
RelOf(type, name) ==
    IF name = "author" THEN [collection |-> FALSE, resource_class |-> "person"]
    ELSE IF name = "comments" THEN [collection |-> TRUE, resource_class |-> "comment"]
    ELSE IF name = "tags" THEN [collection |-> TRUE, resource_class |-> "tag"]
    ELSE [collection |-> TRUE, resource_class |-> "person"]

\* cls.attributes of each resource class
Attributes(type) ==
    IF type = "post" THEN <<"title", "body">>
    ELSE IF type = "comment" THEN <<"text">>
    ELSE <<"name">>

\* cls.bound_viewset of each resource class, as the chain up to its root
\* (only the post class is bound, to a root viewset)
BoundChain(type) == IF type = "post" THEN <<Level(1, TRUE)>> ELSE <<>>

DocObj(type, id) == [type |-> type, id |-> id]
Post == DocObj("post", 1)
Comments == {DocObj("comment", i) : i \in 1..MaxMembers}
Tags == {DocObj("tag", 1)}
Owners == {Post} \cup Comments

\* the collections a comment's "likes" accessor may hold
LikesLists == {<<>>, <<DocObj("person", 2), DocObj("person", 1)>>}

InitDoc ==
    /\ rel1 \in [Owners -> {NoObj, DocObj("person", 1)}]
    /\ \E cs \in SeqUpTo(Comments, MaxMembers), ts \in SeqUpTo(Tags, 1),
          likes \in [Comments -> LikesLists] :
          /\ Distinct(cs)
          /\ relN = [o \in Owners |->
                       IF o = Post THEN [comments |-> cs, tags |-> ts, likes |-> <<>>]
                       ELSE [comments |-> <<>>, tags |-> <<>>, likes |-> likes[o]]]
    /\ included = <<>>
    /\ incCall = <<>>
    /\ fragment = <<>>

\* a Resource: a resource class wrapped around an object
Resource(type, o) == [cls |-> type, obj |-> o]

\* Resource.get_identifier, lines 110-114
GetIdentifier(r) == [type |-> r.cls, id |-> Str(r.obj.id)]

\* Included.add: the accumulator keeps one entry per identifier, in
\* insertion order
IncludedAdd(inc, r) ==
    IF \E i \in 1..Len(inc) : GetIdentifier(inc[i]) = GetIdentifier(r)
    THEN inc
    ELSE Append(inc, r)

\* an include path: a str of dot-separated segments, or the list [] that
\* resolve_include itself passes on as "rest"
PathStr(segs) == [list |-> FALSE, segs |-> segs]
EmptyList == [list |-> TRUE, segs |-> <<>>]

\* resolve_include, lines 175-185; ForMembers is its loop, lines 183-185
RECURSIVE ResolveInclude(_, _, _)
RECURSIVE ForMembers(_, _, _, _, _)
ResolveInclude(resource, path, inc) ==
    IF path.list
    THEN [status |-> "AttributeError", inc |-> inc]
    ELSE LET head == path.segs[1]
             rest == IF Len(path.segs) >= 2 THEN PathStr(Tail(path.segs)) ELSE EmptyList
         IN IF head \notin Range(Declared(resource.cls))
            THEN [status |-> "SerializationError", inc |-> inc]
            ELSE LET rel == RelOf(resource.cls, head)
                 IN IF ~rel.collection
                    THEN [status |-> "AttributeError", inc |-> inc]
                    ELSE ForMembers(resource, rel, relN[resource.obj][head], rest, inc)
ForMembers(resource, rel, members, rest, inc) ==
    IF Len(members) = 0 THEN [status |-> "ok", inc |-> inc]
    ELSE LET r == ResolveInclude(resource, rest, inc)
         IN IF r.status # "ok" THEN r
            ELSE ForMembers(resource, rel, Tail(members), rest,
                            IncludedAdd(r.inc, Resource(rel.resource_class, members[1])))

Segments == {"author", "comments", "tags", "likes", "ghost"}
Paths == {PathStr(segs) : segs \in UNION {[1..n -> Segments] : n \in 1..MaxPathLen}}

\* a caller resolves one include path from a resource into a fresh Included
CallResolveInclude ==
    /\ incCall = <<>> /\ fragment = <<>>
    /\ \E o \in {Post} \cup {DocObj("comment", 1)}, path \in Paths :
          LET resource == Resource(o.type, o)
              r == ResolveInclude(resource, path, <<>>)
          IN /\ incCall' = <<[resource |-> resource, path |-> path, status |-> r.status]>>
             /\ included' = r.inc
    /\ UNCHANGED <<rel1, relN, fragment>>
    /\ UNCHANGED <<popVars, linkVars>>

\* serializable, lines 148-160: the entry of one relationship
RelEntry(resource, name) ==
    LET rel == RelOf(resource.cls, name)
    IN IF rel.collection
       THEN [name |-> name, kind |-> "list",
             ids |-> [i \in 1..Len(relN[resource.obj][name]) |->
                        GetIdentifier(Resource(rel.resource_class,
                                               relN[resource.obj][name][i]))]]
       ELSE IF rel1[resource.obj] # NoObj
       THEN [name |-> name, kind |-> "one",
             ids |-> <<GetIdentifier(Resource(rel.resource_class, rel1[resource.obj]))>>]
       ELSE [name |-> name, kind |-> "null", ids |-> <<>>]

\* RelationshipsOf with the entry of an absent to-one relationship left out
RelationshipsOf_DropNull(resource) ==
    LET all == [i \in 1..Len(Declared(resource.cls)) |->
                   RelEntry(resource, Declared(resource.cls)[i])]
        Present(e) == e.kind # "null"
    IN SelectSeq(all, Present)

\* serializable, lines 147-160: the relationships dict, in declared order
RelationshipsOf(resource) ==
    [i \in 1..Len(Declared(resource.cls)) |-> RelEntry(resource, Declared(resource.cls)[i])]

\* serializable, lines 161-163: every path of included.paths in turn
RECURSIVE ResolvePaths(_, _, _)
ResolvePaths(resource, paths, inc) ==
    IF Len(paths) = 0 THEN [status |-> "ok", inc |-> inc]
    ELSE LET r == ResolveInclude(resource, paths[1], inc)
         IN IF r.status # "ok" THEN r
            ELSE ResolvePaths(resource, Tail(paths), r.inc)

NoLink == [status |-> "None", kwargs |-> <<>>, name |-> "None", absolute |-> FALSE]

\* serializable, lines 143-172
Serializable(resource, hasIncluded, paths, absolute) ==
    LET attributes == [i \in 1..Len(Attributes(resource.cls)) |->
                          <<Attributes(resource.cls)[i], "value">>]
        relationships == RelationshipsOf(resource)
        inc == IF hasIncluded THEN ResolvePaths(resource, paths, <<>>)
               ELSE [status |-> "ok", inc |-> <<>>]
        bound == Len(BoundChain(resource.cls)) > 0
        link == IF bound
                THEN SelfLink(BoundChain(resource.cls), resource.obj, absolute, <<>>)
                ELSE NoLink
    IN IF inc.status # "ok"
       THEN [status |-> inc.status, inc |-> inc.inc, res |-> <<>>]
       ELSE IF bound /\ link.status # "ok"
       THEN [status |-> link.status, inc |-> inc.inc, res |-> <<>>]
       ELSE [status |-> "ok", inc |-> inc.inc,
             res |-> <<[attributes |-> attributes,
                        has_links |-> bound,
                        links |-> link,
                        type |-> GetIdentifier(resource).type,
                        id |-> GetIdentifier(resource).id,
                        has_relationships |-> Len(relationships) > 0,
                        relationships |-> relationships]>>]

\* a caller serializes a resource, with or without an Included accumulator
CallSerializable ==
    /\ incCall = <<>> /\ fragment = <<>>
    /\ \E o \in {Post, DocObj("comment", 1), DocObj("person", 1)},
          hasIncluded \in BOOLEAN, absolute \in BOOLEAN,
          paths \in SeqUpTo({q \in Paths : Len(q.segs) = 1}, 1) :
          LET resource == Resource(o.type, o)
              r == Serializable(resource, hasIncluded, paths, absolute)
          IN /\ (~hasIncluded => paths = <<>>)
             /\ fragment' = <<[resource |-> resource, status |-> r.status, res |-> r.res]>>
             /\ included' = r.inc
    /\ UNCHANGED <<rel1, relN, incCall>>
    /\ UNCHANGED <<popVars, linkVars>>

----------------------------------------------------------------------------
(* Specifications                                                          *)

DocIdle ==
    /\ rel1 = <<>> /\ relN = <<>> /\ included = <<>>
    /\ incCall = <<>> /\ fragment = <<>>
LinkIdle == chain = <<>> /\ ref = <<>> /\ linkCall = <<>>

NextPopulate ==
    \/ PopulateAttrs
    \/ PopulateRelUnknown
    \/ PopulateRelOne
    \/ PopulateRelMany
    \/ PopulateReturn
    \/ SaveCreate
    \/ SaveUpdate
    \/ InvokeSaveRelationships

InitPopulateWorld == InitPopulate /\ DocIdle /\ LinkIdle

SpecPopulate == InitPopulateWorld /\ [][NextPopulate]_vars

PopulateIdle ==
    /\ pkKind = "int" /\ store = {} /\ pc = "idle" /\ obj = NoneObj
    /\ coll = [a \in Accessors |-> {}] /\ frame = NoFrame
    /\ attrsIn = <<>> /\ log = <<>> /\ exc = NoExc

NextLink == GetSelfLink

NextDoc ==
    \/ CallResolveInclude
    \/ CallSerializable

InitDocWorld == PopulateIdle /\ InitDoc /\ LinkIdle

SpecDoc == InitDocWorld /\ [][NextDoc]_vars

InitLinkWorld == PopulateIdle /\ DocIdle /\ InitLink

SpecLink == InitLinkWorld /\ [][NextLink]_vars

----------------------------------------------------------------------------
(* Claims about populate                                                   *)

ManyEntries == {i \in 1..Len(log) : log[i].collection}
OneEntries == {i \in 1..Len(log) : log[i].k \in RelNames /\ ~log[i].collection}

\* the requested ids of an entry that name no row of the related table
MissingIds(e) == {v \in e.given : ParseInt(v.s) \notin store}
\* the rows the requested ids of an entry name
RequestedRows(e) == {ParseInt(v.s) : v \in e.given} \cap store

\* populate raised ValidationError while processing entry i
FailedAt(i) ==
    /\ pc = "raised" /\ i = Len(log)
    /\ exc.type = "ValidationError" /\ exc.key = log[i].k

\* the value the owner's author field had when populate was called
\* (meaningful until the owner is saved)
AuthorAtCall == IF obj.pk = "None" THEN NoTarget ELSE OldAuthor

AttrsApplied ==
    \A i \in 1..Len(attrsIn) :
        /\ attrsIn[i][1] = "name" => obj.name = attrsIn[i][2]
        /\ attrsIn[i][1] = "title" => obj.title = attrsIn[i][2]

\* C1 (as claimed): for a to-many relationship whose requested ids all
\* exist, populate does not fail, leaves the owner's collections untouched
\* and attaches a deferred write; the collections stay untouched until the
\* deferred write is invoked, and after it is invoked on the saved owner the
\* relationship's accessor holds exactly the fetched targets.
C1_DeferredWrite ==
    \A i \in ManyEntries :
        MissingIds(log[i]) = {} =>
            /\ ~FailedAt(i)
            /\ pc \in {"rels", "returned", "saved"} =>
                  \A a \in Accessors : coll[a] = {}
            /\ pc \in {"returned", "saved"} => obj.save_relationships
            /\ pc \in {"written", "written_unsaved"} =>
                  coll[log[i].accessor] =
                      {Target(GetField[IF log[i].k = "tags" THEN "tags" ELSE "comment"].related, row) :
                          row \in RequestedRows(log[i])}

\* C2 (as claimed): after a successful populate of a payload with several
\* to-many relationships, once the deferred writes have been invoked every
\* such relationship's accessor holds that relationship's fetched targets.
C2_EveryDeferredWriteApplied ==
    pc = "written" =>
        \A i \in ManyEntries : coll[log[i].accessor] = log[i].targets

\* C3 (as claimed): a to-many relationship fails with ValidationError keyed
\* by its name exactly when some requested id names no row; the message is
\* the ids that name no row, sorted and joined with ", "; and the failing
\* relationship attaches no deferred write.
C3_MissingIdsMessage ==
    \A i \in ManyEntries :
        /\ (pc = "raised" /\ i = Len(log)) <=> (MissingIds(log[i]) # {})
        /\ (pc = "raised" /\ i = Len(log)) =>
              /\ exc.type = "ValidationError" /\ exc.key = log[i].k
              /\ exc.text = Join(CommaSpace, Sorted({m.s : m \in MissingIds(log[i])}))
              /\ (ManyEntries = {i} => ~obj.save_relationships)

\* C4: a to-one relationship whose id names no row fails with
\* ValidationError keyed by the relationship name and leaves the owner's
\* field as it was; one whose id names a row has the fetched target in the
\* owner's field as soon as the item is processed, before populate returns.
C4_ToOne ==
    \A i \in OneEntries :
        LET row == ParseInt(log[i].id)
        IN IF row \in store
           THEN /\ ~(pc = "raised" /\ i = Len(log))
                /\ obj.author_id = Target("person", row)
           ELSE /\ FailedAt(i)
                /\ exc.text = log[i].id
                /\ obj.author_id = AuthorAtCall

C4_Witness ==
    \E i \in OneEntries :
        /\ ParseInt(log[i].id) \notin store
        /\ pc = "raised" /\ exc.key = "author"
        /\ obj.pk = "set" /\ obj.author_id = OldAuthor

\* C10: every attribute of the payload is on the object before the first
\* relationship is looked up, and nothing is rolled back: when populate
\* raises ValidationError for a relationship, the object carries all the
\* payload's attribute values and the target of every to-one relationship
\* processed before the failing one.
C10_NoRollback ==
    /\ Len(log) > 0 => AttrsApplied
    /\ (pc = "raised" /\ exc.type = "ValidationError") =>
          /\ exc.key = log[Len(log)].k
          /\ AttrsApplied
          /\ \A i \in OneEntries :
                i < Len(log) => obj.author_id = Target("person", ParseInt(log[i].id))

C10_Witness ==
    /\ pc = "raised" /\ exc.type = "ValidationError"
    /\ obj.pk = "set"
    /\ Len(attrsIn) = 2 /\ obj.name = "Ada" /\ obj.title = "Ada"
    /\ Len(log) = 2 /\ log[1].k = "author" /\ log[2].collection
    /\ obj.author_id # OldAuthor

----------------------------------------------------------------------------
(* Claims about resolve_include and serializable                           *)

\* the members reachable from object o through relationship name
MembersOf(o, name) ==
    IF name = "author"
    THEN (IF rel1[o] # NoObj THEN {rel1[o]} ELSE {})
    ELSE Range(relN[o][name])

\* the type a relationship name leads to
TargetType(name) ==
    IF name = "author" \/ name = "likes" THEN "person"
    ELSE IF name = "comments" THEN "comment"
    ELSE "tag"

\* every segment names a relationship declared on the type traversed at
\* that step
RECURSIVE ValidPath(_, _)
ValidPath(type, segs) ==
    /\ segs[1] \in Range(Declared(type))
    /\ Len(segs) = 1 \/ ValidPath(TargetType(segs[1]), Tail(segs))

\* C5 (as claimed): resolving a one-segment path that names a declared
\* relationship completes without error and leaves in the include set
\* exactly the members reachable through that relationship (the related
\* object of a to-one relationship, all members of a to-many one).
C5_SingleSegment ==
    \A i \in 1..Len(incCall) :
        LET c == incCall[i]
        IN (Len(c.path.segs) = 1 /\ c.path.segs[1] \in Range(Declared(c.resource.cls))) =>
              /\ c.status = "ok"
              /\ Range(included) =
                    {Resource(TargetType(c.path.segs[1]), m) :
                        m \in MembersOf(c.resource.obj, c.path.segs[1])}

\* C6 (as claimed): resolving "a.b" looks b up on a's target type and
\* traverses it from each member reached through a, so the include set
\* holds the members reached through a and those reached through b from
\* them.
C6_MultiSegment ==
    \A i \in 1..Len(incCall) :
        LET c == incCall[i]
            a == c.path.segs[1]
            b == c.path.segs[2]
        IN (Len(c.path.segs) = 2 /\ ValidPath(c.resource.cls, c.path.segs)) =>
              /\ c.status = "ok"
              /\ Range(included) =
                    {Resource(TargetType(a), m) : m \in MembersOf(c.resource.obj, a)}
                    \cup UNION {{Resource(TargetType(b), n) : n \in MembersOf(m, b)} :
                                   m \in MembersOf(c.resource.obj, a)}

\* C7 (as claimed): resolve_include raises SerializationError, with nothing
\* added to the include set, when the first segment is not a declared
\* relationship of the resource's type; and it does not raise
\* SerializationError when every segment names a relationship declared on
\* the type traversed at that step.
C7_SerializationError ==
    \A i \in 1..Len(incCall) :
        LET c == incCall[i]
        IN /\ c.path.segs[1] \notin Range(Declared(c.resource.cls)) =>
                 (c.status = "SerializationError" /\ included = <<>>)
           /\ ValidPath(c.resource.cls, c.path.segs) => c.status # "SerializationError"

\* C9: in a fragment serializable produces, every declared relationship has
\* an entry with data, in declared order: for a to-many relationship the
\* identifiers of all members in order (an empty list when there are
\* none), for a to-one relationship the related object's identifier, or an
\* explicit null when there is none.
C9_RelationshipData ==
    \A i \in 1..Len(fragment) :
        LET f == fragment[i]
            o == f.resource.obj
            names == Declared(f.resource.cls)
        IN f.status = "ok" =>
              LET out == f.res[1]
              IN /\ out.has_relationships = (Len(names) > 0)
                 /\ Len(out.relationships) = Len(names)
                 /\ \A j \in 1..Len(names) :
                       LET e == out.relationships[j]
                       IN /\ e.name = names[j]
                          /\ IF names[j] = "author"
                             THEN IF rel1[o] = NoObj
                                  THEN e.kind = "null"
                                  ELSE /\ e.kind = "one"
                                       /\ e.ids = <<[type |-> "person", id |-> Str(rel1[o].id)]>>
                             ELSE /\ e.kind = "list"
                                  /\ Len(e.ids) = Len(relN[o][names[j]])
                                  /\ \A k \in 1..Len(e.ids) :
                                        e.ids[k] = [type |-> TargetType(names[j]),
                                                    id |-> Str(relN[o][names[j]][k].id)]

C9_Witness ==
    \E i \in 1..Len(fragment) :
        /\ fragment[i].status = "ok"
        /\ fragment[i].resource.obj = Post
        /\ rel1[Post] = NoObj
        /\ Len(relN[Post].comments) = 2
        /\ relN[Post].tags = <<>>
        /\ fragment[i].res[1].relationships[1].kind = "null"

----------------------------------------------------------------------------
(* Claims about get_self_link                                              *)

\* C8 (as claimed): for a chain of k >= 1 bound viewsets, the lookup map
\* handed to route reversal has one entry per level, root first and leaf
\* last, and the leaf level's entry is the stringified id of the
\* resource's own object.
C8_LookupMap ==
    \A i \in 1..Len(linkCall) :
        LET c == linkCall[i]
        IN c.result.status = "ok" =>
              /\ Len(c.result.kwargs) = Len(chain)
              /\ \A j \in 1..Len(chain) : c.result.kwargs[j][1] = chain[j].field
              /\ c.result.kwargs[Len(chain)][2] = Str(c.obj.id)

====
